---- MODULE Spec2Model ----
(***************************************************************************)
(* A model of findata-fetcher's session-bridging and artifact-capture      *)
(* code: the filesystem watcher (get_new_files, preserve_new_file), the    *)
(* download interception (Download, intercept_download), the Charles       *)
(* Schwab export flow (cs.py), the cookie bridge and the direct-fetch      *)
(* flows of Degiro and Interactive Brokers.                                *)
(*                                                                         *)
(* One fetch is one behaviour: Init picks the flow being run, the inputs   *)
(* it is given and the state of the downloads directory; the actions are   *)
(* the steps of the coroutines and of the environment (the browser writing *)
(* files, firing the download event, the server answering the GET).        *)
(***************************************************************************)
EXTENDS Integers, Sequences, FiniteSets, TLC

VARIABLES
    flow,         \* which entry point this behaviour runs
    wmode,        \* the watcher context wrapped around it: none / get_new_files / preserve_new_file
    pc,           \* position of the fetch coroutine: a label of its program, or NotStarted / ctx_exit / Done / Failed
    err,          \* the exception that left the fetch (NoError while there is none)
    result,       \* what the fetch returned to its caller
    waited,       \* time units spent in the current bounded wait
    driver,       \* the webdriver a fetch opens itself (ib.py 95): none / open / closed
    \* ---- the downloads directory and the watcher (playwrightutils.py 51-110)
    dir,          \* os.listdir(dir) now
    old_entries,  \* get_new_files: the snapshot of line 96
    new_entries,  \* wait_for_new_files: the listing of its last scan (line 100)
    wtask,        \* wait_for_new_files_task: none / runnable / sleeping / returned / cancelled
    wresult,      \* the list the task returned
    wctx,         \* the watcher context: idle / body / exiting_copy / exiting / done / raised
    ctask,        \* preserve_new_file's copy_new_files_task: none / waiting / copying / done / failed
    tocopy,       \* copy_new_files: the files its loop has not reached yet
    copied,       \* how often each path was copied to <path>.csv
    fsEvents,     \* how many creations and deletions the browser has made
    \* ---- the download interception (playwrightutils.py 113-140)
    listening,    \* page.expect_download: a listener for the download event exists
    dlEvent,      \* the browser's download event: none / captured / lost
    value,        \* Download.value ("unset" until wait_for_download sets it)
    exportClicks, \* clicks on the export button
    credsSubmitted, \* submissions of the credentials
    dlAwaits,     \* calls of Download.wait_for_download
    dlPath,       \* what download.path() gave: none (not asked) / path / nopath / failed
    clickOutcome, \* what the click on the disclaimer's OK button ended in (NotClicked before)
    \* ---- the direct fetch (degiro.py, ib.py) and the cookie bridge
    jar,          \* the cookie list the browser session supplies
    cookies,      \* the dict the cookie bridge made of it ("unset" before)
    url,          \* the URL handed to requests.get ("" before)
    response,     \* the response to the GET (NoResponse before)
    getCount,     \* GETs issued
    account_stmt, \* degiro: what fetch_account returned
    portfolio_stmt, \* degiro: what fetch_portfolio returned
    \* ---- new_page (playwrightutils.py 143-163)
    acquired,     \* the resources new_page has opened, in the order it opened them
    released,     \* the resources close() was called on, in the order of the calls
    pending       \* the exception on its way out through new_page's contexts (NoError if none)

fetchVars == <<flow, wmode, pc, err, result, waited, driver>>
watchVars == <<old_entries, new_entries, wtask, wresult, wctx>>
copyVars  == <<ctask, tocopy, copied>>
fsVars    == <<dir, fsEvents>>
dlVars    == <<listening, dlEvent, value, exportClicks, credsSubmitted, dlAwaits, dlPath,
              clickOutcome>>
httpVars  == <<jar, cookies, url, response, getCount, account_stmt, portfolio_stmt>>

pageVars  == <<acquired, released, pending>>

vars == <<fetchVars, watchVars, copyVars, fsVars, dlVars, httpVars, pageVars>>

(***************************************************************************)
(* Bounds of the model.                                                    *)
(***************************************************************************)
\* creations and deletions the browser makes in the downloads directory
MaxFsEvents == 3

\* time units a bounded wait lasts before it gives up. The waits of the code
\* last 30 s (WebDriverWait(driver, 30), implicitly_wait(30), Playwright's
\* default), 60 s and 120 s: the model counts all of them in units of one
\* whole timeout.
WaitTimeout == 2

\* cookies in the list a browser session supplies to the cookie bridge
MaxCookies == 3

\* entry names the browser writes into the downloads directory
Names == {"f1", "f2", "f3"}

\* the directory handed to get_new_files / preserve_new_file
DownloadsDir == "downloads"

\* contents a downloaded file or a response body can have
Bytes == {"b1", "b2"}

(***************************************************************************)
(* Exceptions: a class and a message, the message as its words in order.   *)
(***************************************************************************)
NoError == [class |-> "none", msg |-> <<>>]

\* the disclaimer's OK button has not been clicked
NotClicked == [class |-> "not clicked", msg |-> <<>>]

\* playwright._impl._api_types.Error with the message the disclaimer click is known to end in
E_TargetClosed == [class |-> "playwright.Error", msg |-> <<"Target closed">>]

E_TargetClosedLong == [class |-> "playwright.Error",
                       msg |-> <<"Target closed", ": the page has been closed">>]

\* playwright Errors with other messages
E_Detached == [class |-> "playwright.Error", msg |-> <<"Element is not attached">>]

E_NotAtStart == [class |-> "playwright.Error", msg |-> <<"Protocol error: ", "Target closed">>]

\* playwright's TimeoutError is a subclass of its Error
E_Timeout == [class |-> "playwright.TimeoutError", msg |-> <<"Timeout exceeded">>]

\* selenium's TimeoutException / NoSuchElementException after the implicit wait
E_SeleniumTimeout == [class |-> "selenium.TimeoutException", msg |-> <<"Timeout exceeded">>]

E_Navigation == [class |-> "NavigationError", msg |-> <<"navigation failed">>]

\* an exception that is no playwright Error, whatever its message
E_Other == [class |-> "RuntimeError", msg |-> <<"Target closed">>]

\* what the body of a watcher context raises
E_Body == [class |-> "BodyError", msg |-> <<"body failed">>]

\* shutil.copy on a file that is gone
E_FileNotFound == [class |-> "FileNotFoundError", msg |-> <<"No such file">>]

\* download.path() of a failed or cancelled download
E_DownloadFailed == [class |-> "playwright.Error", msg |-> <<"Download failed">>]

\* playwrightutils.py line 122
E_Capture == [class |-> "Exception", msg |-> <<"The download interception has failed.">>]

\* degiro.py lines 93 and 113
E_NoLink == [class |-> "Exception", msg |-> <<"The CSV export link was not found.">>]

\* json.loads / base64 on a body that is not the expected JSON (ib.py 74-75)
E_Decode == [class |-> "ValueError", msg |-> <<"cannot decode">>]

IsPlaywrightError(e) == e.class \in {"playwright.Error", "playwright.TimeoutError"}

\* str.startswith
StartsWith(msg, prefix) ==
    /\ Len(msg) >= Len(prefix)
    /\ SubSeq(msg, 1, Len(prefix)) = prefix

\* the values a message carries
Mentions(e, x) == \E i \in 1..Len(e.msg) : e.msg[i] = x

Terminal == pc \in {"Done", "Failed"}

(***************************************************************************)
(* The programs: the awaits and calls of each entry point, in order.       *)
(***************************************************************************)
\* cs.py 66-75
CsLogin == <<"cs_login_goto", "cs_login_focus_id", "cs_login_type",
             "cs_login_focus_code", "cs_login_wait_url">>

\* cs.py 38-51; select_account is do_nothing (25-26) or the EAC selection (29-31)
CsTrigger(eac) ==
    <<"trig_goto">>
    \o (IF eac THEN <<"trig_select_combobox", "trig_select_link">> ELSE <<"trig_select_nothing">>)
    \o <<"trig_export_click", "trig_popup", "trig_disclaimer">>

\* playwrightutils.py 137-140 around a body
Intercept(body) == <<"intercept_enter">> \o body \o <<"intercept_exit", "wait_for_download">>

\* a download that triggers the export before it logs in
CsDownload_TriggerFirst(eac) == Intercept(CsTrigger(eac)) \o CsLogin \o <<"cs_return">>

\* cs.py 87-90 and 102-106
CsDownload(eac) == CsLogin \o Intercept(CsTrigger(eac)) \o <<"cs_return">>

\* degiro.py 31-45
DegiroLogin == <<"dg_implicitly_wait", "dg_login_get", "dg_login_user", "dg_login_pwd",
                 "dg_wait_login">>

\* degiro.py 76-95
DegiroAccount == <<"dga_get", "dga_export_btn", "dga_export_click", "dga_sleep", "dga_form",
                   "dga_link", "dga_href", "dga_cookies", "dga_fetch">>

\* degiro.py 98-115
DegiroPortfolio == <<"dgp_sidebar", "dgp_sidebar_click", "dgp_export_btn", "dgp_export_click",
                     "dgp_sleep", "dgp_form", "dgp_link", "dgp_href", "dgp_cookies",
                     "dgp_fetch">>

\* ib.py 89-99 with 23-44 and 78-86
IbFetchData == <<"ib_open_driver", "ib_implicitly_wait", "ib_login_get", "ib_login_user",
                 "ib_login_pwd", "ib_wait_logged_in", "ib_reports_click", "ib_reports_loaded",
                 "ib_session_id", "ib_cookies", "ib_fetch", "ib_return">>

Program(f) ==
    CASE f = "client"           -> <<"body", "client_return">>
      [] f = "cs"               -> CsDownload(FALSE)
      [] f = "cs_eac"           -> CsDownload(TRUE)
      [] f = "degiro_account"   -> DegiroLogin \o DegiroAccount \o <<"dg_return">>
      [] f = "degiro_portfolio" -> DegiroLogin \o DegiroPortfolio \o <<"dg_return">>
      [] f = "degiro_all"       -> DegiroLogin \o DegiroPortfolio \o DegiroAccount \o <<"dg_return">>
      [] f = "ib"               -> IbFetchData
      [] f = "bridge"           -> <<"bridge_call", "bridge_return">>
      [] f = "new_page"         -> <<"np_acquire", "np_body", "np_release">>

\* the label that follows l in the program of f
NextLabel(f, l) ==
    LET prog == Program(f)
        i == CHOOSE k \in 1..Len(prog) : prog[k] = l
    IN prog[i + 1]

\* page.goto / driver.get: the navigation can fail
NavLabels == {"cs_login_goto", "trig_goto", "dg_login_get", "dga_get", "ib_login_get"}

\* a locator or find_element: waits, bounded, until the element is there
LookupLabels == {"cs_login_focus_id", "cs_login_focus_code", "trig_select_combobox",
                 "trig_select_link", "trig_export_click",
                 "dg_login_user", "dg_login_pwd", "dga_export_btn", "dga_form", "dga_link",
                 "dgp_sidebar", "dgp_export_btn", "dgp_form", "dgp_link",
                 "ib_login_user", "ib_login_pwd", "ib_reports_click", "ib_reports_loaded"}

\* the wait for the authenticated marker: wait_for_url, WebDriverWait(...).until
AuthWaitLabels == {"cs_login_wait_url", "dg_wait_login", "ib_wait_logged_in"}

\* the wait for the popup the export button opens (cs.py 43)
PopupWaitLabels == {"trig_popup"}

\* steps that neither wait nor fail in the model
PlainLabels == {"cs_login_type", "trig_select_nothing", "dg_implicitly_wait", "dga_export_click",
                "dga_sleep", "dgp_sidebar_click", "dgp_export_click", "dgp_sleep",
                "ib_open_driver", "ib_implicitly_wait", "ib_session_id", "body"}

\* the waits of the generic kind: the condition comes true, or the timeout raises
WaitLabels == LookupLabels \cup AuthWaitLabels \cup PopupWaitLabels

\* every bounded wait of a fetch, the wait for the download event included
BoundedWaits == WaitLabels \cup {"intercept_exit"}

\* steps that talk to the Playwright page
PlaywrightLabels == {"cs_login_goto", "cs_login_focus_id", "cs_login_type", "cs_login_focus_code",
                     "cs_login_wait_url", "trig_goto", "trig_select_combobox",
                     "trig_select_link", "trig_export_click", "trig_popup"}

\* steps that send the credentials off (the Enter / RETURN key)
SubmitLabels == {"cs_login_type", "dg_login_pwd", "ib_login_pwd"}

\* the body of intercept_download
TriggerLabels == {"trig_goto", "trig_select_nothing", "trig_select_combobox", "trig_select_link",
                  "trig_export_click", "trig_popup", "trig_disclaimer"}

\* the exception a wait raises at its timeout
TimeoutErrorOf(l) == IF l \in PlaywrightLabels THEN E_Timeout ELSE E_SeleniumTimeout

(***************************************************************************)
(* Leaving a step.                                                         *)
(***************************************************************************)
\* a step that is made again after it has raised
Raise_Retry(e) ==
    UNCHANGED <<pc, err, waited, listening, wctx, driver, flow, wmode, result>>

\* an exception leaves the fetch: it passes every enclosing context manager.
\* expect_download drops its listener; the generator of get_new_files /
\* preserve_new_file gets the exception at its yield and does not catch it,
\* so lines 72 and 110 do not run.
Raise(e) ==
    /\ pc' = "Failed"
    /\ err' = e
    /\ waited' = 0
    /\ listening' = FALSE
    /\ wctx' = IF wctx \in {"body", "exiting_copy", "exiting"} THEN "raised" ELSE wctx
    /\ driver' = IF driver = "open" THEN "closed" ELSE driver
    /\ UNCHANGED <<flow, wmode, result>>

\* the step at pc is done: on to the next one
Advance ==
    /\ pc' = NextLabel(flow, pc)
    /\ waited' = 0
    /\ exportClicks' = exportClicks + (IF pc = "trig_export_click" THEN 1 ELSE 0)
    /\ credsSubmitted' = credsSubmitted + (IF pc \in SubmitLabels THEN 1 ELSE 0)
    /\ driver' = IF pc = "ib_open_driver" THEN "open" ELSE driver
    /\ UNCHANGED <<flow, wmode, err, result>>

(***************************************************************************)
(* The filesystem: the browser creates and deletes entries at any time.    *)
(***************************************************************************)
CreateFile ==
    /\ wmode # "none"
    /\ fsEvents < MaxFsEvents
    /\ \E n \in Names \ dir : dir' = dir \cup {n}
    /\ fsEvents' = fsEvents + 1
    /\ UNCHANGED <<fetchVars, watchVars, copyVars, dlVars, httpVars>>
    /\ UNCHANGED pageVars

DeleteFile ==
    /\ wmode # "none"
    /\ fsEvents < MaxFsEvents
    /\ \E n \in dir : dir' = dir \ {n}
    /\ fsEvents' = fsEvents + 1
    /\ UNCHANGED <<fetchVars, watchVars, copyVars, dlVars, httpVars>>
    /\ UNCHANGED pageVars

(***************************************************************************)
(* get_new_files (playwrightutils.py 79-110) and preserve_new_file (51-72) *)
(***************************************************************************)
\* line 103: [pathlib.Path(dir / nf) for nf in new_files]
PathsOf(d, names) == {<<d, nf>> : nf \in names}

\* a watcher that takes one new entry for none
HasNewFiles_TwoMore(new, old) == Cardinality(new) > Cardinality(old) + 1

\* line 101: len(new_entries) > len(old_entries)
HasNewFiles(new, old) == Cardinality(new) > Cardinality(old)

\* a watcher that returns the whole listing
NewFiles_All(new, old) == new

\* line 102: new_entries.difference(old_entries)
NewFiles(new, old) == new \ old

\* lines 96-109: the snapshot, the task's creation, the yield; under
\* preserve_new_file also lines 61-71: the copy task's creation and its yield.
\* A created task first runs when the creating coroutine next suspends.
EnterWatcher ==
    /\ wmode # "none"
    /\ wctx = "idle"
    /\ pc = "NotStarted"
    /\ old_entries' = dir
    /\ wtask' = "runnable"
    /\ wctx' = "body"
    /\ ctask' = IF wmode = "preserve_new_file" THEN "waiting" ELSE ctask
    /\ UNCHANGED <<fetchVars, new_entries, wresult, tocopy, copied, fsVars, dlVars, httpVars>>
    /\ UNCHANGED pageVars

\* lines 99-106: one iteration of wait_for_new_files, up to its return or its sleep
Scan ==
    /\ wtask = "runnable"
    /\ new_entries' = dir
    /\ IF HasNewFiles(dir, old_entries)
          THEN /\ wtask' = "returned"
               /\ wresult' = PathsOf(DownloadsDir, NewFiles(dir, old_entries))
          ELSE /\ wtask' = "sleeping"
               /\ UNCHANGED wresult
    /\ UNCHANGED <<fetchVars, old_entries, wctx, copyVars, fsVars, dlVars, httpVars>>
    /\ UNCHANGED pageVars

\* line 105: asyncio.sleep(1) is over
WakeUp ==
    /\ wtask = "sleeping"
    /\ wtask' = "runnable"
    /\ UNCHANGED <<fetchVars, old_entries, new_entries, wresult, wctx, copyVars, fsVars,
                   dlVars, httpVars>>
    /\ UNCHANGED pageVars

\* line 64: copy_new_files gets the watcher's result
CopyStart ==
    /\ ctask = "waiting"
    /\ wtask = "returned"
    /\ tocopy' = wresult
    /\ ctask' = IF wresult = {} THEN "done" ELSE "copying"
    /\ UNCHANGED <<fetchVars, watchVars, copied, fsVars, dlVars, httpVars>>
    /\ UNCHANGED pageVars

\* line 68: str(nf) + ".csv"
CopyName(name) == name \o ".csv"

\* lines 65-68: shutil.copy(nf, str(nf) + ".csv") of the next file: the copy
\* is a new entry of the same directory; the file may be gone
CopyOne ==
    /\ ctask = "copying"
    /\ \E nf \in tocopy :
          IF nf[2] \in dir
             THEN /\ copied' = [copied EXCEPT ![nf] = @ + 1]
                  /\ dir' = dir \cup {CopyName(nf[2])}
                  /\ tocopy' = tocopy \ {nf}
                  /\ ctask' = IF tocopy = {nf} THEN "done" ELSE "copying"
             ELSE /\ ctask' = "failed"
                  /\ UNCHANGED <<copied, tocopy, dir>>
    /\ UNCHANGED <<fetchVars, watchVars, fsEvents, dlVars, httpVars>>
    /\ UNCHANGED pageVars

\* an exit that does not wait for the copies
ExitAwaitCopy_NoAwait ==
    /\ wctx = "exiting_copy"
    /\ pc = "ctx_exit"
    /\ wctx' = "exiting"
    /\ UNCHANGED <<fetchVars, old_entries, new_entries, wtask, wresult, copyVars, fsVars,
                   dlVars, httpVars, pageVars>>

\* line 72: await copy_new_files_task, which re-raises what the task raised
ExitAwaitCopy ==
    /\ wctx = "exiting_copy"
    /\ pc = "ctx_exit"
    /\ \/ /\ ctask = "done"
          /\ wctx' = "exiting"
          /\ UNCHANGED <<fetchVars, listening>>
       \/ /\ ctask = "failed"
          /\ Raise(E_FileNotFound)
    /\ UNCHANGED <<old_entries, new_entries, wtask, wresult, copyVars, fsVars,
                   dlEvent, value, exportClicks, credsSubmitted, dlAwaits, dlPath,
                   clickOutcome, httpVars>>
    /\ UNCHANGED pageVars

\* an exit that does not wait for the watcher's task
ExitAwaitWatcher_NoAwait ==
    /\ wctx = "exiting"
    /\ pc = "ctx_exit"
    /\ wctx' = "done"
    /\ pc' = "Done"
    /\ UNCHANGED <<flow, wmode, err, result, waited, driver, old_entries, new_entries, wtask,
                   wresult, copyVars, fsVars, dlVars, httpVars, pageVars>>

\* line 110: await wait_for_new_files_task
ExitAwaitWatcher ==
    /\ wctx = "exiting"
    /\ pc = "ctx_exit"
    /\ wtask = "returned"
    /\ wctx' = "done"
    /\ pc' = "Done"
    /\ UNCHANGED <<flow, wmode, err, result, waited, driver, old_entries, new_entries, wtask,
                   wresult, copyVars, fsVars, dlVars, httpVars>>
    /\ UNCHANGED pageVars

(***************************************************************************)
(* The steps all flows share.                                              *)
(***************************************************************************)
\* the result of a fetch: nothing yet, the bytes of one artifact, or a pair of them
NoResult == <<>>

\* what a step that goes on leaves alone, and what a step that raises does
advanceFrame == <<watchVars, copyVars, fsVars, listening, dlEvent, value, dlAwaits, dlPath,
                  clickOutcome, httpVars>>
raiseFrame == <<old_entries, new_entries, wtask, wresult, copyVars, fsVars,
                dlEvent, value, exportClicks, credsSubmitted, dlAwaits, dlPath,
                   clickOutcome, httpVars>>

\* a body that runs before the watcher context has been entered
Start_BeforeEnter ==
    /\ pc = "NotStarted"
    /\ pc' = Program(flow)[1]
    /\ UNCHANGED <<flow, wmode, err, result, waited, driver, watchVars, copyVars, fsVars,
                   dlVars, httpVars, pageVars>>

\* the caller's first step: inside the watcher context when there is one
Start ==
    /\ pc = "NotStarted"
    /\ wmode = "none" \/ wctx = "body"
    /\ pc' = Program(flow)[1]
    /\ UNCHANGED <<flow, wmode, err, result, waited, driver, watchVars, copyVars, fsVars,
                   dlVars, httpVars>>
    /\ UNCHANGED pageVars

\* the function returns r: to its caller, or into the exit of the watcher
\* context (line 72 under preserve_new_file, line 110 under get_new_files)
Finish(r) ==
    /\ result' = r
    /\ pc' = IF wmode = "none" THEN "Done" ELSE "ctx_exit"
    /\ wctx' = CASE wmode = "get_new_files" -> "exiting"
                 [] wmode = "preserve_new_file" -> "exiting_copy"
                 [] OTHER -> wctx
    /\ waited' = 0
    /\ driver' = IF driver = "open" THEN "closed" ELSE driver
    /\ UNCHANGED <<flow, wmode, err>>

finishFrame == <<old_entries, new_entries, wtask, wresult, copyVars, fsVars, dlVars>>

NavOK ==
    /\ pc \in NavLabels
    /\ Advance
    /\ UNCHANGED advanceFrame
    /\ UNCHANGED pageVars

NavFail ==
    /\ pc \in NavLabels
    /\ Raise(E_Navigation)
    /\ UNCHANGED raiseFrame
    /\ UNCHANGED pageVars

PlainStep ==
    /\ pc \in PlainLabels
    /\ Advance
    /\ UNCHANGED advanceFrame
    /\ UNCHANGED pageVars

\* the condition a wait is for has come true
WaitSatisfied ==
    /\ pc \in WaitLabels
    /\ Advance
    /\ UNCHANGED advanceFrame
    /\ UNCHANGED pageVars

\* a time unit passes in a bounded wait
Tick ==
    /\ pc \in BoundedWaits
    /\ waited < WaitTimeout
    /\ waited' = waited + 1
    /\ UNCHANGED <<flow, wmode, pc, err, result, driver, watchVars, copyVars, fsVars, dlVars,
                   httpVars>>
    /\ UNCHANGED pageVars

\* a wait without a timeout
TimedOut_Never(l, w) == FALSE

\* whether the wait at label l, having lasted w, gives up
TimedOut(l, w) == l \in BoundedWaits /\ w >= WaitTimeout

WaitTimesOut ==
    /\ pc \in WaitLabels
    /\ TimedOut(pc, waited)
    /\ Raise(TimeoutErrorOf(pc))
    /\ UNCHANGED raiseFrame
    /\ UNCHANGED pageVars

\* an except clause that lets every playwright Error pass
Swallowed_AnyPlaywrightError(e) == IsPlaywrightError(e)

\* cs.py 49-51: the except clause of the disclaimer click lets e pass
Swallowed(e) == IsPlaywrightError(e) /\ StartsWith(e.msg, <<"Target closed">>)

\* a try block around the whole export trigger
SwallowedAt_WholeTrigger(l, e) == l \in TriggerLabels /\ Swallowed(e)

\* cs.py 45-51: the try block holds the click on the disclaimer's OK button
\* and nothing else, so its except clause sees the errors of that step only
SwallowedAt(l, e) == l = "trig_disclaimer" /\ Swallowed(e)

\* the page is closed under a Playwright call. An error that an except
\* clause lets pass ends the try block: the flow goes on behind it (cs.py 53)
PageClosed ==
    /\ pc \in PlaywrightLabels
    /\ IF SwallowedAt(pc, E_TargetClosed)
          THEN /\ pc' = "intercept_exit"
               /\ waited' = 0
               /\ UNCHANGED <<flow, wmode, err, result, driver, wctx, listening>>
          ELSE Raise(E_TargetClosed)
    /\ UNCHANGED raiseFrame
    /\ UNCHANGED pageVars

\* the body of a watcher context raises
BodyRaise ==
    /\ pc = "body"
    /\ Raise(E_Body)
    /\ UNCHANGED raiseFrame
    /\ UNCHANGED pageVars

ClientReturn ==
    /\ pc = "client_return"
    /\ Finish(NoResult)
    /\ UNCHANGED <<finishFrame, httpVars>>
    /\ UNCHANGED pageVars

(***************************************************************************)
(* intercept_download and Download (playwrightutils.py 113-140), and the   *)
(* export trigger of cs.py.                                                *)
(***************************************************************************)
\* an interception that yields to the body before it subscribes
InterceptEnter_Unsubscribed ==
    /\ pc = "intercept_enter"
    /\ value' = "unset"
    /\ Advance
    /\ UNCHANGED <<watchVars, copyVars, fsVars, listening, dlEvent, dlAwaits, dlPath,
                   clickOutcome, httpVars>>
    /\ UNCHANGED pageVars

\* lines 137-139: page.expect_download() is entered, the Download is made
\* (no value yet), and the generator yields to the body
InterceptEnter ==
    /\ pc = "intercept_enter"
    /\ listening' = TRUE
    /\ value' = "unset"
    /\ Advance
    /\ UNCHANGED <<watchVars, copyVars, fsVars, dlEvent, dlAwaits, dlPath, clickOutcome, httpVars>>
    /\ UNCHANGED pageVars

\* the browser starts the download the export asked for
FireDownloadEvent ==
    /\ exportClicks > 0
    /\ pc \in TriggerLabels \cup {"intercept_exit"}
    /\ dlEvent = "none"
    /\ dlEvent' = IF listening THEN "captured" ELSE "lost"
    /\ UNCHANGED <<fetchVars, watchVars, copyVars, fsVars, listening, value, exportClicks,
                   credsSubmitted, dlAwaits, dlPath, clickOutcome, httpVars>>
    /\ UNCHANGED pageVars

\* what the click on the disclaimer's OK button can end in: nothing raised,
\* or a playwright Error (its timeout included), or another exception
DisclaimerOutcomes == {NoError, E_TargetClosed, E_TargetClosedLong, E_Detached, E_NotAtStart,
                       E_Timeout, E_Other}

\* an interception that awaits the download whatever its body ended in
DisclaimerClick_AwaitAnyway ==
    /\ pc = "trig_disclaimer"
    /\ \E o \in DisclaimerOutcomes : clickOutcome' = o
    /\ pc' = "wait_for_download"
    /\ UNCHANGED <<flow, wmode, err, result, waited, driver, watchVars, copyVars, fsVars,
                   listening, dlEvent, value, exportClicks, credsSubmitted, dlAwaits, dlPath,
                   httpVars, pageVars>>

\* cs.py 45-51
DisclaimerClick ==
    /\ pc = "trig_disclaimer"
    /\ \E o \in DisclaimerOutcomes :
          /\ clickOutcome' = o
          /\ IF o = NoError \/ SwallowedAt(pc, o)
                THEN /\ Advance
                     /\ UNCHANGED <<watchVars, copyVars, fsVars, listening, dlEvent, value,
                                    dlAwaits, dlPath, httpVars>>
                ELSE /\ Raise(o)
                     /\ UNCHANGED <<old_entries, new_entries, wtask, wresult, copyVars, fsVars,
                                    dlEvent, value, exportClicks, credsSubmitted, dlAwaits,
                                    dlPath, httpVars>>
    /\ UNCHANGED pageVars

\* line 137, the exit of expect_download after a body that did not raise:
\* it awaits the event, which the listener has caught or not yet
InterceptExit ==
    /\ pc = "intercept_exit"
    /\ dlEvent = "captured"
    /\ listening' = FALSE
    /\ Advance
    /\ UNCHANGED <<watchVars, copyVars, fsVars, dlEvent, value, dlAwaits, dlPath,
                   clickOutcome, httpVars>>
    /\ UNCHANGED pageVars

InterceptTimesOut ==
    /\ pc = "intercept_exit"
    /\ dlEvent # "captured"
    /\ TimedOut(pc, waited)
    /\ Raise(E_Timeout)
    /\ UNCHANGED raiseFrame
    /\ UNCHANGED pageVars

\* what download.path() can end in
PathOutcomes == {"path", "nopath", "failed"}

\* a wait_for_download that does not check the path
NoPath_Unchecked(p) == FALSE

\* line 121: not download_path
NoPath(p) == p = "nopath"

\* lines 118-124, called at line 140: download.path() raises for a failed
\* download; else the path is checked and the file read
WaitForDownload ==
    /\ pc = "wait_for_download"
    /\ dlAwaits' = dlAwaits + 1
    /\ \E p \in PathOutcomes :
          /\ dlPath' = p
          /\ IF p = "failed"
                THEN /\ Raise(E_DownloadFailed)
                     /\ UNCHANGED <<value, exportClicks, credsSubmitted>>
                ELSE IF NoPath(p)
                THEN /\ Raise(E_Capture)
                     /\ UNCHANGED <<value, exportClicks, credsSubmitted>>
                ELSE /\ \E b \in Bytes : value' = b
                     /\ Advance
                     /\ UNCHANGED <<wctx, listening>>
    /\ UNCHANGED <<old_entries, new_entries, wtask, wresult, copyVars, fsVars, dlEvent,
                   clickOutcome, httpVars>>
    /\ UNCHANGED pageVars

\* a Download that does not hand out what it read
downloaded_content_Dropped == "unset"

\* lines 126-128, at cs.py 90 and 106
downloaded_content == value

\* reading Download.value before anything was assigned to it
E_NoValue == [class |-> "AttributeError",
              msg |-> <<"'Download' object has no attribute 'value'">>]

\* a Download whose value starts as empty bytes
ReadFails_EmptyBytes(v) == FALSE

\* line 116 assigns download_info only: the attribute value exists from
\* line 124 on, and `return self.value` raises before that
ReadFails(v) == v = "unset"

\* what a call of downloaded_content() ends in now
ContentRead ==
    IF ReadFails(value)
       THEN [ok |-> FALSE, content |-> "", error |-> E_NoValue]
       ELSE [ok |-> TRUE, content |-> downloaded_content, error |-> NoError]

\* cs.py 90 and 106: return download.downloaded_content()
CsReturn ==
    /\ pc = "cs_return"
    /\ IF ReadFails(value)
          THEN /\ Raise(E_NoValue)
               /\ UNCHANGED <<dlEvent, value, exportClicks, credsSubmitted, dlAwaits, dlPath,
                              clickOutcome>>
          ELSE /\ Finish(<<ContentRead.content>>)
               /\ UNCHANGED dlVars
    /\ UNCHANGED <<old_entries, new_entries, wtask, wresult, copyVars, fsVars, httpVars>>
    /\ UNCHANGED pageVars

(***************************************************************************)
(* The cookie bridge (playwrightutils.py 36-44).                           *)
(***************************************************************************)
CookieNames == {"sid", "tok"}
CookieValues == {"v1", "v2"}
CookieDomains == {"d1", "d2"}

\* a playwright Cookie: its name, its value, and what else tells cookies apart
Cookie == [name : CookieNames, value : CookieValues, domain : CookieDomains]

\* the lists of at most n cookies
RECURSIVE CookieLists(_)
CookieLists(n) ==
    IF n = 0 THEN {<<>>}
    ELSE LET shorter == CookieLists(n - 1)
         IN shorter \cup {Append(l, c) : l \in {x \in shorter : Len(x) = n - 1}, c \in Cookie}

\* a dict with no key
EmptyDict == <<>>

\* a dict that keeps the first value of a key
DictSet_KeepFirst(d, k, v) == d @@ (k :> v)

\* d[k] = v of a Python dict
DictSet(d, k, v) == (k :> v) @@ d

\* line 44: {c['name']: c['value'] for c in playwright_cookies}, the cookies
\* taken in the order of the list
RECURSIVE playwright_cookie_jar_to_requests_cookies(_)
playwright_cookie_jar_to_requests_cookies(playwright_cookies) ==
    IF playwright_cookies = <<>> THEN EmptyDict
    ELSE LET n == Len(playwright_cookies)
             c == playwright_cookies[n]
         IN DictSet(playwright_cookie_jar_to_requests_cookies(SubSeq(playwright_cookies, 1, n - 1)),
                    c.name, c.value)

\* fetcher/driverutils.py: the same bridge for a Selenium cookie list
driver_cookie_jar_to_requests_cookies(driver_cookies) ==
    playwright_cookie_jar_to_requests_cookies(driver_cookies)

\* the caller hands the session's cookie list to the bridge
BridgeCall ==
    /\ pc = "bridge_call"
    /\ cookies' = playwright_cookie_jar_to_requests_cookies(jar)
    /\ Advance
    /\ UNCHANGED <<watchVars, copyVars, fsVars, listening, dlEvent, value, dlAwaits, dlPath, clickOutcome,
                   jar, url, response, getCount, account_stmt, portfolio_stmt>>
    /\ UNCHANGED pageVars

BridgeReturn ==
    /\ pc = "bridge_return"
    /\ Finish(NoResult)
    /\ UNCHANGED <<finishFrame, httpVars>>
    /\ UNCHANGED pageVars

(***************************************************************************)
(* The direct fetch: degiro.py 48-58 and 76-156, ib.py 46-99.              *)
(***************************************************************************)
\* the cookies of an authenticated Selenium session
SessionJar == <<[name |-> "sid", value |-> "v1", domain |-> "d1"]>>

\* what the href of the CSV link can be: none, or one of two URLs
Hrefs == {"", "https://trader.degiro.nl/csv/1", "https://trader.degiro.nl/csv/2"}

\* ib.py 50-51
FETCH_URL == "https://www.interactivebrokers.co.uk/AccountManagement/Statements/Run"

\* the final status codes a server answers with
Statuses == {200, 304, 403, 500}

\* the reason phrase that goes with a status code
ReasonOf(status) ==
    CASE status = 200 -> "OK"
      [] status = 304 -> "Not Modified"
      [] status = 403 -> "Forbidden"
      [] status = 500 -> "Internal Server Error"

\* the status code as text
StatusText(status) == ToString(status)

NoResponse == [status |-> 0, reason |-> "", content |-> "", json |-> FALSE]

\* the responses a GET can get; json: the body is the JSON ib.py expects
Responses == {[status |-> st, reason |-> ReasonOf(st), content |-> b, json |-> j] :
                 st \in Statuses, b \in Bytes, j \in BOOLEAN}

\* a fetch that does not look at the status
ResponseOk_Always(r) == TRUE

\* requests' Response.ok (degiro.py 54, ib.py 70): raise_for_status() does
\* not raise, and it raises for 400 <= status < 600
ResponseOk(r) == ~(400 <= r.status /\ r.status < 600)

\* str() of a dict: its items, each name once, in insertion order
RECURSIVE DictItems(_, _, _)
DictItems(cookieList, d, seen) ==
    IF cookieList = <<>> THEN <<>>
    ELSE LET k == Head(cookieList).name
         IN IF k \in seen
               THEN DictItems(Tail(cookieList), d, seen)
               ELSE <<k, d[k]>> \o DictItems(Tail(cookieList), d, seen \cup {k})

\* degiro.py 55-57
FetchCsvError(r, u, cookieList, d) ==
    [class |-> "Exception",
     msg |-> <<"The URL fetch request has failed. ", "Response reason: ", r.reason,
               ", parameters: ", u>> \o DictItems(cookieList, d, {})]

\* ib.py 71-73
FetchStatementError(r, cookieList, d) ==
    [class |-> "Exception",
     msg |-> <<"The statement fetch request has failed. ", "Response reason: ", r.reason,
               ", parameters: ", FETCH_URL>> \o DictItems(cookieList, d, {})]

\* base64.decodestring of the fileContent of the JSON body (ib.py 74-75)
Base64Decode(b) == CASE b = "b1" -> "d1" [] b = "b2" -> "d2"

\* a flow that takes any href for a link URL
NoHref_Unchecked(h) == FALSE

\* degiro.py 92 and 112: not csvFetchUrl
NoHref(h) == h = ""

\* degiro.py 91-93 and 111-113: the href of the CSV link, or the link has none
ReadHref ==
    /\ pc \in {"dga_href", "dgp_href"}
    /\ \E h \in Hrefs :
          /\ url' = h
          /\ IF NoHref(h)
                THEN /\ Raise(E_NoLink)
                     /\ UNCHANGED <<old_entries, new_entries, wtask, wresult, copyVars, fsVars,
                                    dlEvent, value, exportClicks, credsSubmitted, dlAwaits, dlPath, clickOutcome>>
                ELSE /\ Advance
                     /\ UNCHANGED <<watchVars, copyVars, fsVars, listening, dlEvent, value,
                                    dlAwaits, dlPath, clickOutcome>>
    /\ UNCHANGED <<jar, cookies, response, getCount, account_stmt, portfolio_stmt>>
    /\ UNCHANGED pageVars

\* degiro.py 94 and 114, ib.py 84
BridgeCookies ==
    /\ pc \in {"dga_cookies", "dgp_cookies", "ib_cookies"}
    /\ cookies' = driver_cookie_jar_to_requests_cookies(jar)
    /\ Advance
    /\ UNCHANGED <<watchVars, copyVars, fsVars, listening, dlEvent, value, dlAwaits, dlPath, clickOutcome,
                   jar, url, response, getCount, account_stmt, portfolio_stmt>>
    /\ UNCHANGED pageVars

\* degiro.py 48-58, called at 95 (fetch_account) and 115 (fetch_portfolio)
FetchCsv ==
    /\ pc \in {"dga_fetch", "dgp_fetch"}
    /\ getCount' = getCount + 1
    /\ \E r \in Responses :
          /\ r.json = FALSE
          /\ response' = r
          /\ IF ~ResponseOk(r)
                THEN /\ Raise(FetchCsvError(r, url, jar, cookies))
                     /\ UNCHANGED <<old_entries, new_entries, wtask, wresult, copyVars, fsVars,
                                    dlEvent, value, exportClicks, credsSubmitted, dlAwaits, dlPath, clickOutcome,
                                    account_stmt, portfolio_stmt>>
                ELSE /\ Advance
                     /\ account_stmt' = IF pc = "dga_fetch" THEN r.content ELSE account_stmt
                     /\ portfolio_stmt' = IF pc = "dgp_fetch" THEN r.content ELSE portfolio_stmt
                     /\ UNCHANGED <<watchVars, copyVars, fsVars, listening, dlEvent, value,
                                    dlAwaits, dlPath, clickOutcome>>
    /\ UNCHANGED <<jar, cookies, url>>
    /\ UNCHANGED pageVars

\* a fetch_all that returns the statements in the order it fetched them
fetch_all_result_FetchOrder(account, portfolio) == <<portfolio, account>>

\* degiro.py 156: return (account_stmt, portfolio_stmt)
fetch_all_result(account, portfolio) == <<account, portfolio>>

\* degiro.py 128, 141 and 156
DegiroReturn ==
    /\ pc = "dg_return"
    /\ Finish(CASE flow = "degiro_account" -> <<account_stmt>>
                [] flow = "degiro_portfolio" -> <<portfolio_stmt>>
                [] flow = "degiro_all" -> fetch_all_result(account_stmt, portfolio_stmt))
    /\ UNCHANGED <<finishFrame, httpVars>>
    /\ UNCHANGED pageVars

\* ib.py 65-75
FetchStatementCsv ==
    /\ pc = "ib_fetch"
    /\ getCount' = getCount + 1
    /\ url' = FETCH_URL
    /\ \E r \in Responses :
          /\ response' = r
          /\ IF ~ResponseOk(r)
                THEN /\ Raise(FetchStatementError(r, jar, cookies))
                     /\ UNCHANGED <<account_stmt, exportClicks, credsSubmitted>>
                ELSE IF ~r.json
                THEN /\ Raise(E_Decode)
                     /\ UNCHANGED <<account_stmt, exportClicks, credsSubmitted>>
                ELSE /\ Advance
                     /\ account_stmt' = Base64Decode(r.content)
                     /\ UNCHANGED <<wctx, listening>>
    /\ UNCHANGED <<old_entries, new_entries, wtask, wresult, copyVars, fsVars, dlEvent, value,
                   dlAwaits, dlPath, clickOutcome, jar, cookies, portfolio_stmt>>
    /\ UNCHANGED pageVars

\* ib.py 99 with 86
IbReturn ==
    /\ pc = "ib_return"
    /\ Finish(<<account_stmt>>)
    /\ UNCHANGED <<finishFrame, httpVars>>
    /\ UNCHANGED pageVars

(***************************************************************************)
(* new_page (playwrightutils.py 143-163): one async with over four context *)
(* managers, entered left to right and left in the reverse order.          *)
(***************************************************************************)
\* fetcher/contextextra.py: a context manager that awaits the thing, yields
\* it, and closes it when the context is left, by return or by exception
async_closing(thing) == [yields |-> thing, onExit |-> "close"]

\* playwright's own context manager: stopped when it is left
async_playwright == [yields |-> "playwright", onExit |-> "stop"]

\* lines 156-162: async_playwright(), the launched browser, its new context,
\* the context's new page
ContextManagers == <<async_playwright, async_closing("browser"), async_closing("context"),
                     async_closing("page")>>

\* what the context managers yield, in the order they are entered
Resources == [i \in 1..Len(ContextManagers) |-> ContextManagers[i].yields]

\* launching the browser, or opening the context or the page, has failed
E_Launch == [class |-> "playwright.Error", msg |-> <<"cannot open">>]

\* a close() has failed
E_Close == [class |-> "playwright.Error", msg |-> <<"cannot close">>]

\* the elements of a sequence, the last one first
Reverse(seq) == [i \in 1..Len(seq) |-> seq[Len(seq) + 1 - i]]

\* an unwinding that leaves the contexts in the order they were entered
NextToRelease_EntryOrder(acq, rel) == acq[Len(rel) + 1]

\* the exit of an async with of several items: the innermost context that is
\* still entered is left first
NextToRelease(acq, rel) == acq[Len(acq) - Len(rel)]

pageFrame == <<flow, wmode, err, result, waited, driver, watchVars, copyVars, fsVars, dlVars,
               httpVars>>

\* the next context manager is entered: async_closing awaits the thing and
\* yields it
Acquire ==
    /\ pc = "np_acquire"
    /\ Len(acquired) < Len(Resources)
    /\ acquired' = Append(acquired, Resources[Len(acquired) + 1])
    /\ pc' = IF Len(acquired) + 1 = Len(Resources) THEN "np_body" ELSE pc
    /\ UNCHANGED <<released, pending, pageFrame>>

\* entering the next context manager raises: the ones entered so far are left
AcquireFails ==
    /\ pc = "np_acquire"
    /\ Len(acquired) < Len(Resources)
    /\ pending' = E_Launch
    /\ pc' = "np_release"
    /\ UNCHANGED <<acquired, released, pageFrame>>

\* line 163: the body that was given the page ends, or raises into the yield
PageBody ==
    /\ pc = "np_body"
    /\ \E e \in {NoError, E_Body} : pending' = e
    /\ pc' = "np_release"
    /\ UNCHANGED <<acquired, released, pageFrame>>

\* the exit of one context manager: async_closing closes its thing in its
\* finally clause, async_playwright() stops; what a close() raises replaces
\* the exception on its way out, and the outer contexts are still left
Release ==
    /\ pc = "np_release"
    /\ Len(released) < Len(acquired)
    /\ released' = Append(released, NextToRelease(acquired, released))
    /\ \E e \in {pending, E_Close} : pending' = e
    /\ UNCHANGED <<acquired, pc, pageFrame>>

\* the outermost context is left: new_page returns, or the exception leaves it
PageReturn ==
    /\ pc = "np_release"
    /\ Len(released) = Len(acquired)
    /\ IF pending = NoError
          THEN /\ Finish(NoResult)
               /\ UNCHANGED listening
          ELSE /\ Raise(pending)
    /\ UNCHANGED <<old_entries, new_entries, wtask, wresult, copyVars, fsVars, dlEvent, value,
                   exportClicks, credsSubmitted, dlAwaits, dlPath, clickOutcome, httpVars,
                   pageVars>>

(***************************************************************************)
(* The specification.                                                      *)
(***************************************************************************)
\* the entry points the model runs, each with the watcher context around it
Setups == {<<"client", "get_new_files">>, <<"client", "preserve_new_file">>,
           <<"cs", "none">>, <<"cs", "get_new_files">>, <<"cs_eac", "none">>,
           <<"degiro_account", "none">>, <<"degiro_portfolio", "none">>,
           <<"degiro_all", "none">>, <<"ib", "none">>, <<"bridge", "none">>,
           <<"new_page", "none">>}

Init ==
    /\ \E s \in Setups : flow = s[1] /\ wmode = s[2]
    /\ pc = "NotStarted"
    /\ err = NoError
    /\ result = NoResult
    /\ waited = 0
    /\ driver = "none"
    /\ dir \in (IF wmode = "none" THEN {{}} ELSE SUBSET Names)
    /\ old_entries = {}
    /\ new_entries = {}
    /\ wtask = "none"
    /\ wresult = {}
    /\ wctx = "idle"
    /\ ctask = "none"
    /\ tocopy = {}
    /\ copied = [p \in PathsOf(DownloadsDir, Names) |-> 0]
    /\ fsEvents = 0
    /\ listening = FALSE
    /\ dlEvent = "none"
    /\ value = "unset"
    /\ exportClicks = 0
    /\ credsSubmitted = 0
    /\ dlAwaits = 0
    /\ dlPath = "none"
    /\ clickOutcome = NotClicked
    /\ jar \in (IF flow = "bridge" THEN CookieLists(MaxCookies) ELSE {SessionJar})
    /\ cookies = EmptyDict
    /\ url = ""
    /\ response = NoResponse
    /\ getCount = 0
    /\ account_stmt = "none"
    /\ portfolio_stmt = "none"
    /\ acquired = <<>>
    /\ released = <<>>
    /\ pending = NoError

Next ==
    \/ CreateFile
    \/ DeleteFile
    \/ EnterWatcher
    \/ Scan
    \/ WakeUp
    \/ CopyStart
    \/ CopyOne
    \/ ExitAwaitCopy
    \/ ExitAwaitWatcher
    \/ Start
    \/ NavOK
    \/ NavFail
    \/ PlainStep
    \/ WaitSatisfied
    \/ Tick
    \/ WaitTimesOut
    \/ PageClosed
    \/ BodyRaise
    \/ ClientReturn
    \/ InterceptEnter
    \/ FireDownloadEvent
    \/ DisclaimerClick
    \/ InterceptExit
    \/ InterceptTimesOut
    \/ WaitForDownload
    \/ CsReturn
    \/ BridgeCall
    \/ BridgeReturn
    \/ ReadHref
    \/ BridgeCookies
    \/ FetchCsv
    \/ DegiroReturn
    \/ FetchStatementCsv
    \/ IbReturn
    \/ Acquire
    \/ AcquireFails
    \/ PageBody
    \/ Release
    \/ PageReturn

Spec == Init /\ [][Next]_vars

\* the program's own steps are taken when they can be: the event loop runs
\* every runnable coroutine, a sleep ends, a timeout fires. What the
\* environment does (files appearing, conditions coming true, the download
\* event, the page closing) is under no fairness.
FetchStep ==
    \/ Start \/ EnterWatcher \/ ExitAwaitCopy \/ ExitAwaitWatcher
    \/ NavOK \/ NavFail \/ PlainStep \/ Tick \/ WaitTimesOut \/ ClientReturn
    \/ InterceptEnter \/ DisclaimerClick \/ InterceptExit \/ InterceptTimesOut
    \/ WaitForDownload \/ CsReturn \/ BridgeCall \/ BridgeReturn
    \/ ReadHref \/ BridgeCookies \/ FetchCsv \/ DegiroReturn \/ FetchStatementCsv \/ IbReturn
    \/ Acquire \/ AcquireFails \/ PageBody \/ Release \/ PageReturn

WatcherStep == Scan \/ WakeUp

CopyStep == CopyStart \/ CopyOne

FairSpec ==
    /\ Spec
    /\ WF_vars(FetchStep)
    /\ WF_vars(WatcherStep)
    /\ WF_vars(CopyStep)

(***************************************************************************)
(* The claims.                                                             *)
(***************************************************************************)
\* the labels at which the body of intercept_download has not finished
BeforeBodyEnd == {"NotStarted", "intercept_enter"} \cup TriggerLabels
                 \cup {CsLogin[i] : i \in 1..Len(CsLogin)}

\* the watcher's task is neither finished nor cancelled
WatcherPending == wtask \in {"runnable", "sleeping"}

\* C1: the download-event subscription exists during the whole export
\* trigger, the download is awaited only after the trigger has finished, and
\* so no download event fired during the trigger is lost.
C1_SubscribedBeforeTrigger ==
    /\ pc \in TriggerLabels => listening
    /\ pc \in BeforeBodyEnd => dlAwaits = 0
    /\ dlEvent # "lost"

\* C1's case: the event fired while the trigger was still running, and was caught
C1_Witness == pc \in TriggerLabels /\ dlEvent = "captured"

\* C2: once the capture has returned the artifact of the channel that
\* resolved first, the other channel has no pending task.
C2_LoserCancelled ==
    (wmode = "get_new_files" /\ flow = "cs" /\ value # "unset") => ~WatcherPending

\* C3: after the fetch that owns a watcher has left the watcher's context,
\* by return or by exception, the polling task is no longer pending.
C3_WatcherSettledAfterExit ==
    wctx \in {"done", "raised"} => ~WatcherPending

\* C4: every path the watcher returns names an entry that was in the
\* directory at the detecting scan and not in the snapshot.
C4_NoSnapshotPath ==
    wtask = "returned" =>
        \A p \in wresult : /\ p[1] = DownloadsDir
                           /\ p[2] \notin old_entries
                           /\ p[2] \in new_entries

\* C4's case: the watcher returned although snapshot entries were deleted
C4_Witness ==
    /\ wtask = "returned"
    /\ wresult # {}
    /\ old_entries \ new_entries # {}

\* C5: the watcher returns at the first scan that finds an entry absent from
\* the snapshot, with all the entries created since: it is never polling on
\* after a scan that found one.
C5_ReturnsAtFirstNewEntry ==
    /\ WatcherPending => new_entries \subseteq old_entries
    /\ wtask = "returned" => wresult = PathsOf(DownloadsDir, new_entries \ old_entries)

\* the flow is in one of its bounded waits
InBoundedWait == pc \in BoundedWaits

\* the exceptions a wait raises when its timeout is over
TimeoutErrors == {E_Timeout, E_SeleniumTimeout}

\* the watcher's wait has its condition: the directory holds an entry that
\* the snapshot does not
NewEntryPresent == wctx # "idle" /\ dir \ old_entries # {}

\* C6 as stated: no flow hangs, whatever wait it is in: unless the condition
\* it waits for comes true, the fetch eventually ends. For the watcher's
\* wait: a new entry appears in the directory, or the fetch ends.
C6_NeverHangs == <>(Terminal \/ NewEntryPresent)

\* C6, amended: the waits for the authenticated marker, for an element, for
\* the popup and for the download event are bounded: the flow leaves each of
\* them, and when the wait has lasted its timeout with its condition still
\* unmet, the flow fails with a timeout error.
C6_BoundedWaitsEnd ==
    /\ InBoundedWait ~> ~InBoundedWait
    /\ [][(InBoundedWait /\ pc' = "Failed" /\ err' # E_TargetClosed)
             => (waited >= WaitTimeout /\ err' \in TimeoutErrors)]_vars

\* C6's case: a wait whose condition never came true has ended the flow
C6_Witness == pc = "Failed" /\ err \in TimeoutErrors

\* C7: a download whose path does not resolve fails the capture with the
\* capture error; no bytes reach the caller, and neither the await nor the
\* export action is repeated.
C7_NoPathFails ==
    /\ dlPath = "nopath" =>
          /\ pc = "Failed"
          /\ err = E_Capture
          /\ value = "unset"
          /\ result = NoResult
          /\ dlAwaits = 1
          /\ exportClicks = 1
    /\ dlAwaits <= 1
    /\ exportClicks <= 1

\* C7's case: the event was caught and the path did not resolve
C7_Witness == dlEvent = "captured" /\ dlPath = "nopath"

\* the two forms of the error the disclaimer click is known to end in
TargetClosedErrors == {E_TargetClosed, E_TargetClosedLong}

\* C8: a "Target closed" playwright Error of the disclaimer click is
\* swallowed (the trigger returns, and the flow goes on to the download as
\* after a click that raised nothing); any other error of that click leaves
\* the flow as it is, with no artifact.
C8_OnlyTargetClosedSwallowed ==
    /\ clickOutcome \in TargetClosedErrors =>
          /\ pc \notin TriggerLabels
          /\ err \notin TargetClosedErrors
          /\ (pc = "Failed" /\ dlAwaits = 0) => err = E_Timeout
          /\ pc \in {"cs_return", "ctx_exit", "Done"} => value \in Bytes
          /\ pc = "Done" => result = <<value>>
    /\ clickOutcome \notin (TargetClosedErrors \cup {NoError, NotClicked}) =>
          /\ pc = "Failed"
          /\ err = clickOutcome
          /\ result = NoResult
          /\ value = "unset"
          /\ dlAwaits = 0

\* C8's case: the click raised "Target closed" and the download was returned
C8_Witness ==
    /\ clickOutcome = E_TargetClosed
    /\ pc = "Done"
    /\ result = <<value>>
    /\ value \in Bytes

\* the names of the cookies of a list
NamesOf(cookieList) == {cookieList[i].name : i \in 1..Len(cookieList)}

\* the bridge has been applied to jar
Bridged == flow = "bridge" /\ pc \in {"bridge_return", "Done"}

\* C9 as stated: the result has the names of the list as its keys, and every
\* cookie's value under its name.
C9_EveryPairKept ==
    Bridged =>
        /\ DOMAIN cookies = NamesOf(jar)
        /\ \A i \in 1..Len(jar) : cookies[jar[i].name] = jar[i].value

\* the last cookie of the list that has the name
LastOf(cookieList, name) ==
    cookieList[CHOOSE i \in 1..Len(cookieList) :
                  /\ cookieList[i].name = name
                  /\ \A j \in (i + 1)..Len(cookieList) : cookieList[j].name # name]

\* C9, amended: the keys are the names of the list, and under each name is
\* the value of the last cookie of that name; so every pair is kept when no
\* two cookies share a name.
C9_LastPairKept ==
    Bridged =>
        /\ DOMAIN cookies = NamesOf(jar)
        /\ \A n \in NamesOf(jar) : cookies[n] = LastOf(jar, n).value
        /\ (Cardinality(NamesOf(jar)) = Len(jar)) =>
              \A i \in 1..Len(jar) : cookies[jar[i].name] = jar[i].value

\* C9's case: two cookies of one name and different values were bridged
C9_Witness ==
    /\ Bridged
    /\ \E i, j \in 1..Len(jar) :
          i < j /\ jar[i].name = jar[j].name /\ jar[i].value # jar[j].value

\* a GET has been answered with a status that is no success
GetFailed == getCount > 0 /\ response.status >= 400

\* C10 as stated: after such a GET the fetch has failed with an error that
\* carries the status code and the URL, and has returned nothing.
C10_ErrorNamesStatus ==
    GetFailed =>
        /\ pc = "Failed"
        /\ Mentions(err, StatusText(response.status))
        /\ Mentions(err, url)
        /\ result = NoResult

\* C10, amended: the error carries the reason phrase of the response (not
\* its status code) and the URL; nothing is returned.
C10_ErrorNamesReason ==
    GetFailed =>
        /\ pc = "Failed"
        /\ Mentions(err, response.reason)
        /\ Mentions(err, url)
        /\ result = NoResult

\* C10's case: the GET was answered 403
C10_Witness == getCount > 0 /\ response.status = 403 /\ pc = "Failed"

\* a status code outside the 2xx range
NonSuccess(status) == ~(200 <= status /\ status < 300)

\* the GETs a flow issues when nothing fails: one per artifact it asks for
ArtifactsOf(f) == IF f = "degiro_all" THEN 2 ELSE 1

\* C11: after a GET answered with a status outside 2xx (1xx and 3xx final
\* responses included) the fetch has failed with an error and returns no
\* content; the GET of an artifact is issued once, never again.
C11_NonSuccessIsError ==
    /\ (getCount > 0 /\ NonSuccess(response.status)) =>
          /\ pc = "Failed"
          /\ err # NoError
          /\ result = NoResult
    /\ getCount <= ArtifactsOf(flow)

\* the lookup of the CSV link and the reading of its href
LinkLabels == {"dga_link", "dgp_link", "dga_href", "dgp_href"}

\* the errors of a link that is not there, or has no URL
NoLinkErrors == {E_SeleniumTimeout, E_NoLink}

\* C12: when the export link is absent after the wait, or has no URL, the
\* flow fails there with an error, and that step neither bridges the cookies
\* nor issues the GET; a GET is only ever issued with the non-empty URL that
\* was read from the link.
C12_NoLinkNoFetch ==
    /\ [][(pc \in LinkLabels /\ pc' = "Failed") =>
             /\ err' \in NoLinkErrors
             /\ err' = E_NoLink <=> (pc \in {"dga_href", "dgp_href"} /\ url' = "")
             /\ cookies' = cookies
             /\ getCount' = getCount
             /\ result' = NoResult]_vars
    /\ [][(getCount' # getCount /\ pc \in {"dga_fetch", "dgp_fetch"}) =>
             (url # "" /\ url \in Hrefs /\ url' = url)]_vars
    /\ [](err = E_NoLink => (pc = "Failed" /\ url = "" /\ result = NoResult))
    /\ []((flow \in {"degiro_account", "degiro_portfolio"} /\ err \in NoLinkErrors
           /\ getCount = 0 /\ pc = "Failed") => cookies = EmptyDict)

\* C12's case: the link was found, but it has no href
C12_Witness == pc = "Failed" /\ err = E_NoLink /\ url = ""

\* C13: new_page closes every resource it opened, the last opened first,
\* whether its body returned or raised or a later resource failed to open,
\* and closes none while the body runs; the driver ib.fetch_data opens is
\* closed when fetch_data has returned or raised, and not before.
C13_ReleasedOnEveryExit ==
    /\ flow = "new_page" =>
          /\ (Terminal => released = Reverse(acquired))
          /\ (pc \in {"NotStarted", "np_acquire", "np_body"} => released = <<>>)
          /\ \A i \in 1..Len(released) : released[i] = Reverse(acquired)[i]
          /\ Len(released) <= Len(acquired)
          /\ \A i \in 1..Len(acquired) : acquired[i] = Resources[i]
          /\ (pc = "Done" <=> (Len(released) = Len(Resources) /\ pending = NoError
                                /\ result = NoResult /\ err = NoError /\ Terminal))
    /\ flow = "ib" =>
          /\ (Terminal => driver # "open")
          /\ (driver = "closed" => Terminal)
          /\ (pc \in {"NotStarted", "ib_open_driver"} <=> driver = "none")

\* C13's case: the body raised, and the page, the context, the browser and
\* playwright were closed, in this order, before the exception left new_page
C13_Witness ==
    /\ flow = "new_page"
    /\ pc = "Failed"
    /\ err = E_Body
    /\ released = <<"page", "context", "browser", "playwright">>

\* the entry points that fetch a statement
FetchFlows == {"cs", "cs_eac", "degiro_account", "degiro_portfolio", "degiro_all", "ib"}

\* the steps of logging in, up to the submission of the credentials
LoggingInLabels == {"cs_login_goto", "cs_login_focus_id", "cs_login_type",
                    "dg_implicitly_wait", "dg_login_get", "dg_login_user", "dg_login_pwd",
                    "ib_open_driver", "ib_implicitly_wait", "ib_login_get", "ib_login_user",
                    "ib_login_pwd"}

\* the credentials are in; the authenticated marker has not been seen
AwaitingAuthLabels == {"cs_login_focus_code"} \cup AuthWaitLabels

\* on the way to the export page, the subscription and the account selection included
NavigatingLabels == {"intercept_enter", "trig_goto", "trig_select_nothing", "trig_select_combobox",
                     "trig_select_link", "dga_get", "dga_export_btn", "dgp_sidebar",
                     "dgp_sidebar_click", "dgp_export_btn", "ib_reports_click",
                     "ib_reports_loaded", "ib_session_id", "ib_cookies"}

\* at the export action: the click on the export button, or ib's GET
ExportLabels == {"trig_export_click", "dga_export_click", "dgp_export_click", "ib_fetch"}

\* the flow state a position of the flow is in: 0 NotStarted, 1 LoggingIn,
\* 2 AwaitingAuthentication, 3 Navigating, 4 ExportTriggered,
\* 5 CaptureInFlight, 6 Done, 7 Failed
PhaseOf(l) ==
    CASE l = "NotStarted" -> 0
      [] l \in LoggingInLabels -> 1
      [] l \in AwaitingAuthLabels -> 2
      [] l \in NavigatingLabels -> 3
      [] l \in ExportLabels -> 4
      [] l = "Done" -> 6
      [] l = "Failed" -> 7
      [] OTHER -> 5

\* what every flow keeps of the order of the flow states: the authenticated
\* marker is observed before anything of the export, and Done comes after
\* the capture has resolved
MarkerBeforeExport ==
    /\ [][(flow \in FetchFlows /\ PhaseOf(pc) <= 2 /\ PhaseOf(pc') \in 3..6) =>
             (pc \in AuthWaitLabels /\ PhaseOf(pc') = 3)]_vars
    /\ [][(exportClicks' # exportClicks \/ dlAwaits' # dlAwaits \/ getCount' # getCount
           \/ listening' # listening \/ dlEvent' # dlEvent) => PhaseOf(pc) \in 3..5]_vars
    /\ [][(flow \in FetchFlows /\ pc # "Done" /\ pc' = "Done") =>
             /\ PhaseOf(pc) = 5
             /\ result' # NoResult
             /\ flow \in {"cs", "cs_eac"} => (dlEvent = "captured" /\ dlPath = "path"
                                               /\ result' = <<value>> /\ value \in Bytes)
             /\ flow \notin {"cs", "cs_eac"} => (getCount = ArtifactsOf(flow)
                                                  /\ ~GetFailed)]_vars

\* C14 as stated: a fetch never moves from a flow state to an earlier one,
\* and the authenticated marker comes before the export, the export before
\* the capture, the capture before Done.
C14_PhasesInOrder ==
    /\ [][(flow \in FetchFlows) => (PhaseOf(pc') >= PhaseOf(pc))]_vars
    /\ MarkerBeforeExport

\* fetch_all goes from the capture of the portfolio statement to the export
\* page of the account statement
NextArtifact == flow = "degiro_all" /\ pc = "dgp_fetch" /\ pc' = "dga_get"

\* C14, amended: the flow states come in this order for each artifact that is
\* asked for; a fetch of two artifacts returns from CaptureInFlight to
\* Navigating once, for its second artifact, without logging in again.
C14_PhasesInOrderPerArtifact ==
    /\ [][(flow \in FetchFlows) => (PhaseOf(pc') >= PhaseOf(pc) \/ NextArtifact)]_vars
    /\ [][NextArtifact => (getCount' = 1 /\ credsSubmitted' = 1 /\ ResponseOk(response'))]_vars
    /\ MarkerBeforeExport

\* C14's case: fetch_all has returned, having been through both exports
C14_Witness == flow = "degiro_all" /\ pc = "Done" /\ getCount = 2 /\ credsSubmitted = 1

\* how far the flow has come in its program
PosOf(l) ==
    CASE l = "NotStarted" -> 0
      [] l = "ctx_exit" -> Len(Program(flow)) + 1
      [] l \in {"Done", "Failed"} -> Len(Program(flow)) + 2
      [] OTHER -> CHOOSE k \in 1..Len(Program(flow)) : Program(flow)[k] = l

\* what a fetch has done to the outside: credentials, export clicks, awaits
\* of the download, GETs
Effects == <<credsSubmitted, exportClicks, dlAwaits, getCount>>

\* C15: nothing is retried: no step of a flow is made a second time, the
\* credentials are submitted at most once, the export is clicked and the
\* download awaited at most once, a GET is issued at most once per artifact;
\* an error leaves the flow Failed, and a Failed flow takes no further step.
C15_NoRetry ==
    /\ [](/\ credsSubmitted <= 1
          /\ exportClicks <= 1
          /\ dlAwaits <= 1
          /\ getCount <= ArtifactsOf(flow)
          /\ (err # NoError <=> pc = "Failed"))
    /\ [][PosOf(pc') >= PosOf(pc)]_vars
    /\ [][(Effects' # Effects) =>
             /\ PosOf(pc') > PosOf(pc)
             /\ credsSubmitted' - credsSubmitted \in {0, 1}
             /\ exportClicks' - exportClicks \in {0, 1}
             /\ dlAwaits' - dlAwaits \in {0, 1}
             /\ getCount' - getCount \in {0, 1}]_vars
    /\ [][pc = "Failed" =>
             UNCHANGED <<fetchVars, dlVars, httpVars, pageVars, wctx>>]_vars

\* C15's case: the download failed after the login, the export and the one
\* await of it, and nothing was made again
C15_Witness ==
    /\ pc = "Failed"
    /\ credsSubmitted = 1
    /\ exportClicks = 1
    /\ dlAwaits = 1
    /\ dlPath = "failed"

\* the flows that capture a download
CaptureFlows == {"cs", "cs_eac"}

\* C16: a flow has at most one capture, begun before any download is there
\* and over when the download is awaited; the capture gives no artifact or
\* one: once the download event has resolved with a path, the flow does not
\* fail, and the bytes read from that path are what it returns, once.
C16_OneArtifactPerCapture ==
    /\ listening => (flow \in CaptureFlows /\ dlAwaits = 0 /\ dlPath = "none" /\ value = "unset")
    /\ dlAwaits <= 1
    /\ dlPath = "path" =>
          /\ dlEvent = "captured"
          /\ value \in Bytes
          /\ pc \in {"cs_return", "ctx_exit", "Done"}
          /\ pc # "cs_return" => result = <<value>>
    /\ value # "unset" => dlPath = "path"
    /\ flow \in CaptureFlows =>
          /\ Len(result) <= 1
          /\ result # NoResult => (dlPath = "path" /\ result = <<value>>)
          /\ pc = "Done" => result = <<value>>

\* C16's case: the download resolved with a path after a trigger that raised
\* nothing, and the flow returned its bytes
C16_Witness ==
    /\ flow \in CaptureFlows
    /\ clickOutcome = NoError
    /\ dlPath = "path"
    /\ pc = "Done"
    /\ result = <<value>>
    /\ value \in Bytes

\* the watcher was entered on an empty directory
WatchingEmptyDir == wctx # "idle" /\ old_entries = {}

\* C17: a watcher entered on an empty directory does not return before a
\* file is there; a scan made while a file is there returns, with exactly
\* the files that are there, so that after the appearance the watcher ends
\* at most the sleep it is in, and then returns.
C17_ReturnsWithinOnePoll ==
    /\ []((WatchingEmptyDir /\ wtask = "returned") =>
             /\ new_entries # {}
             /\ wresult = PathsOf(DownloadsDir, new_entries))
    /\ []((WatchingEmptyDir /\ fsEvents = 0) => wtask # "returned")
    /\ [][(WatchingEmptyDir /\ wtask = "runnable" /\ wtask' # wtask /\ dir # {}) =>
             /\ wtask' = "returned"
             /\ wresult' = PathsOf(DownloadsDir, dir)
             /\ \A f \in Names : dir = {f} => wresult' = {<<DownloadsDir, f>>}]_vars
    /\ [][(WatchingEmptyDir /\ wtask = "sleeping" /\ wtask' # wtask) => wtask' = "runnable"]_vars
    /\ (WatchingEmptyDir /\ WatcherPending /\ dir # {}) ~> (wtask = "returned" \/ dir = {})

\* C17's case: the directory was empty, one file appeared, nothing else
\* happened in the directory, and the watcher returned that file
C17_Witness ==
    /\ WatchingEmptyDir
    /\ fsEvents = 1
    /\ wtask = "returned"
    /\ \E f \in Names : dir = {f} /\ wresult = {<<DownloadsDir, f>>}

\* the steps of the export trigger before the click on the disclaimer
OtherTriggerLabels == TriggerLabels \ {"trig_disclaimer"}

\* C18: only the disclaimer click has its "Target closed" error swallowed: a
\* step of the export trigger before it either is done, and the flow is at
\* the next step, or fails the flow with its error; a flow whose error is
\* "Target closed" has failed before the disclaimer click, with no artifact.
C18_SwallowOnlyAtDisclaimer ==
    /\ [][(pc \in OtherTriggerLabels /\ pc' # pc) =>
             \/ (pc' = NextLabel(flow, pc) /\ err' = NoError)
             \/ (pc' = "Failed" /\ err' # NoError /\ result' = NoResult /\ ~listening')]_vars
    /\ [](err \in TargetClosedErrors =>
             /\ pc = "Failed"
             /\ clickOutcome = NotClicked
             /\ result = NoResult
             /\ value = "unset"
             /\ dlAwaits = 0)

\* C18's case: the page was closed after the click on the export button,
\* while the flow waited for the popup
C18_Witness ==
    /\ err = E_TargetClosed
    /\ pc = "Failed"
    /\ exportClicks = 1
    /\ clickOutcome = NotClicked

\* the files copy_new_files has copied
Copied == {p \in DOMAIN copied : copied[p] > 0}

\* C19: preserve_new_file copies a file the watcher reported, and no other,
\* at most once, each to its own path with ".csv" appended; when the
\* context has been left without an error, every reported file has been
\* copied once; no file of the snapshot is ever copied.
C19_CopiesEveryNewFileOnce ==
    /\ [](/\ \A p \in DOMAIN copied : copied[p] <= 1
          /\ Copied # {} => (wmode = "preserve_new_file" /\ wtask = "returned")
          /\ Copied \subseteq wresult
          /\ \A p \in Copied : p[1] = DownloadsDir /\ p[2] \notin old_entries
          /\ ctask = "done" => Copied = wresult
          /\ (wmode = "preserve_new_file" /\ pc = "Done") => (ctask = "done" /\ Copied = wresult))
    /\ [][copied' # copied =>
             \E p \in wresult :
                /\ copied' = [copied EXCEPT ![p] = 1]
                /\ copied[p] = 0
                /\ p[2] \in dir
                /\ dir' = dir \cup {CopyName(p[2])}
                /\ CopyName(p[2]) # p[2]]_vars

\* C19's case: the watcher reported two files, both were copied, and the
\* context was left
C19_Witness ==
    /\ wmode = "preserve_new_file"
    /\ pc = "Done"
    /\ Cardinality(wresult) = 2
    /\ Copied = wresult
    /\ \A p \in wresult : CopyName(p[2]) \in dir

\* the steps of fetch_portfolio and of fetch_account
PortfolioLabels == {DegiroPortfolio[i] : i \in 1..Len(DegiroPortfolio)}
AccountLabels == {DegiroAccount[i] : i \in 1..Len(DegiroAccount)}

\* C20: fetch_all logs in once, fetches the portfolio statement and then the
\* account statement, and returns the pair (account, portfolio) of the bytes
\* of the two GETs only when both succeeded; when either fetch fails, the
\* flow fails and returns nothing, whatever it has fetched already.
C20_FetchAllNoSalvage ==
    /\ [](flow = "degiro_all" =>
             /\ credsSubmitted <= 1
             /\ getCount <= 2
             /\ (pc \in PortfolioLabels => (getCount = 0 /\ credsSubmitted = 1))
             /\ (pc \in AccountLabels => (getCount = 1 /\ portfolio_stmt \in Bytes))
             /\ (account_stmt # "none" => (portfolio_stmt # "none" /\ getCount = 2))
             /\ (portfolio_stmt # "none" => getCount >= 1)
             /\ (result # NoResult <=> pc = "Done")
             /\ (pc = "Failed" => (result = NoResult /\ err # NoError))
             /\ (pc = "Done" =>
                    /\ result = <<account_stmt, portfolio_stmt>>
                    /\ account_stmt \in Bytes
                    /\ portfolio_stmt \in Bytes
                    /\ account_stmt = response.content
                    /\ getCount = 2
                    /\ err = NoError))
    /\ [][(flow = "degiro_all" /\ getCount' # getCount /\ pc' # "Failed") =>
             /\ (pc = "dgp_fetch" =>
                    (portfolio_stmt' = response'.content /\ account_stmt' = account_stmt))
             /\ (pc = "dga_fetch" =>
                    (account_stmt' = response'.content /\ portfolio_stmt' = portfolio_stmt))]_vars
    /\ [][(flow = "degiro_all" /\ getCount' = getCount) =>
             UNCHANGED <<account_stmt, portfolio_stmt>>]_vars

\* C20's case: the portfolio statement was fetched, the fetch of the account
\* statement failed, and nothing was returned
C20_Witness ==
    /\ flow = "degiro_all"
    /\ pc = "Failed"
    /\ portfolio_stmt \in Bytes
    /\ account_stmt = "none"
    /\ getCount = 2
    /\ result = NoResult

\* every entry of the snapshot is still in the directory
SnapshotIntact == old_entries \subseteq dir

\* C21: the snapshot is taken and the polling task created at the entry of
\* the context, before the body's first step, and the snapshot never changes
\* afterwards; a scan made while the snapshot's entries are all there and a
\* file that is not in the snapshot exists returns, with every such file; and
\* the task does get to that scan.
C21_SnapshotBeforeBody ==
    /\ []((wmode # "none" /\ pc # "NotStarted") => (wctx # "idle" /\ wtask # "none"))
    /\ [](wctx = "idle" =>
             (wtask = "none" /\ old_entries = {} /\ (wmode # "none" => pc = "NotStarted")))
    /\ [][old_entries' # old_entries =>
             (wctx = "idle" /\ pc = "NotStarted" /\ pc' = pc /\ old_entries' = dir
              /\ wtask' = "runnable")]_vars
    /\ [][(wtask = "runnable" /\ wtask' # wtask /\ SnapshotIntact /\ dir \ old_entries # {}) =>
             /\ wtask' = "returned"
             /\ wresult' = PathsOf(DownloadsDir, dir \ old_entries)]_vars
    /\ \A f \in Names :
          (WatcherPending /\ SnapshotIntact /\ f \in dir \ old_entries)
             ~> \/ (wtask = "returned" /\ <<DownloadsDir, f>> \in wresult)
                \/ f \notin dir
                \/ ~SnapshotIntact

\* C21's case: the directory was not empty at the entry, a file appeared
\* during the body, and the watcher returned it
C21_Witness ==
    /\ pc \in {"body", "client_return"}
    /\ wtask = "returned"
    /\ old_entries # {}
    /\ old_entries \subseteq new_entries
    /\ wresult # {}
    /\ wresult = PathsOf(DownloadsDir, new_entries \ old_entries)

\* the body of the watcher context has finished without an error
BodyFinished == wmode # "none" /\ pc \in {"ctx_exit", "Done"}

\* C22: the exit of get_new_files, and of preserve_new_file, completes only
\* after the watcher's task has returned, that is after a scan has found
\* more entries than the snapshot has; until then the flow stays in the exit.
C22_ExitAwaitsWatcher ==
    /\ []((wmode # "none" /\ (pc = "Done" \/ wctx = "done")) =>
             /\ wtask = "returned"
             /\ HasNewFiles(new_entries, old_entries)
             /\ pc = "Done"
             /\ wctx = "done"
             /\ err = NoError)
    /\ []((BodyFinished /\ WatcherPending) => (pc = "ctx_exit" /\ wctx \in {"exiting", "exiting_copy"}))
    /\ []((wmode = "preserve_new_file" /\ wctx = "exiting") => (wtask = "returned" /\ ctask = "done"))
    /\ [][(wmode # "none" /\ pc # "Done" /\ pc' = "Done") =>
             (pc = "ctx_exit" /\ wctx = "exiting" /\ wtask = "returned" /\ wtask' = wtask)]_vars

\* C22's case: a download ran inside get_new_files and returned its bytes,
\* and the context has been left, the watcher's task having returned
C22_Witness ==
    /\ wmode = "get_new_files"
    /\ flow = "cs"
    /\ pc = "Done"
    /\ wctx = "done"
    /\ wtask = "returned"
    /\ result = <<value>>

\* the Download exists, and wait_for_download has not completed
CaptureUnfinished == pc \in TriggerLabels \cup {"intercept_exit", "wait_for_download"}

\* C23: downloaded_content gives bytes only after wait_for_download has
\* completed: while the body of intercept_download runs, while the download
\* is awaited and after a failed capture the read raises; once the value is
\* set it is the bytes read from the resolved path and never changes.
C23_ContentOnlyAfterCapture ==
    /\ [](CaptureUnfinished => (~ContentRead.ok /\ ContentRead.error = E_NoValue))
    /\ []((flow \in CaptureFlows /\ pc = "Failed") =>
             (~ContentRead.ok /\ ContentRead.error = E_NoValue /\ result = NoResult))
    /\ [](ContentRead.ok =>
             /\ dlPath = "path"
             /\ dlAwaits = 1
             /\ ContentRead.content \in Bytes
             /\ pc \in {"cs_return", "ctx_exit", "Done"}
             /\ pc # "cs_return" => result = <<ContentRead.content>>)
    /\ [][ContentRead.ok => ContentRead' = ContentRead]_vars
    /\ [][ContentRead' # ContentRead =>
             (pc = "wait_for_download" /\ dlPath' = "path" /\ ContentRead'.ok)]_vars

\* C23's case: the download event was caught, the path did not resolve, and
\* a read of the content raises
C23_Witness ==
    /\ flow \in CaptureFlows
    /\ pc = "Failed"
    /\ dlAwaits = 1
    /\ err = E_Capture
    /\ ~ContentRead.ok

\* the errors the steps of the export trigger raise
TriggerErrors == {E_Navigation, E_TargetClosed, E_Timeout}
                 \cup {o \in DisclaimerOutcomes : o # NoError /\ ~Swallowed(o)}

\* the errors of the capture itself, behind the body
CaptureErrors == {E_Capture, E_DownloadFailed}

\* C24: when the export trigger raises inside intercept_download, the flow
\* fails there with the trigger's error: wait_for_download is not called,
\* no path is asked for and no file read, and nothing is returned; the
\* download is awaited only after a trigger that returned.
C24_BodyErrorSkipsAwait ==
    /\ [][(pc \in TriggerLabels /\ pc' = "Failed") =>
             /\ err' \in TriggerErrors
             /\ err' \notin CaptureErrors
             /\ (pc = "trig_disclaimer" => err' = clickOutcome')
             /\ dlAwaits' = 0
             /\ dlPath' = "none"
             /\ ~ContentRead'.ok
             /\ result' = NoResult
             /\ ~listening']_vars
    /\ [](dlAwaits > 0 =>
             /\ clickOutcome \in {NoError} \cup TargetClosedErrors
             /\ dlEvent = "captured"
             /\ exportClicks = 1
             /\ err \in {NoError} \cup CaptureErrors)
    /\ []((flow \in CaptureFlows /\ pc = "Failed" /\ dlAwaits = 0) =>
             (dlPath = "none" /\ ~ContentRead.ok /\ result = NoResult
              /\ err \notin CaptureErrors))

\* C24's case: the download event was caught, then the click on the
\* disclaimer raised an error that is not swallowed: the download was never
\* awaited
C24_Witness ==
    /\ pc = "Failed"
    /\ dlEvent = "captured"
    /\ clickOutcome = E_Detached
    /\ err = E_Detached
    /\ dlAwaits = 0
    /\ dlPath = "none"

====
